---- MODULE Spec2Model ----
(***************************************************************************)
(* TrailSync offline-first synchronisation: the Dexie tables of            *)
(* db/database.js (activities, syncQueue, settings), the SyncService of    *)
(* services/sync.js (sync, processSyncQueue, pullFromServer, forceSync)    *)
(* and the activity controller of the backend, as one state machine.       *)
(*                                                                         *)
(* Every async function is cut at its awaits: one action is the effect of  *)
(* the awaited store or network operation together with the synchronous    *)
(* code that runs until the next await.  JavaScript runs that synchronous  *)
(* code without interruption, so the actions are atomic as in the program. *)
(***************************************************************************)
EXTENDS Integers, Sequences, FiniteSets, TLC

VARIABLES
  activities,   \* db.activities: local id -> record
  nextActId,    \* the '++id' auto-increment of db.activities
  syncQueue,    \* db.syncQueue in orderBy('timestamp') order
  nextQId,      \* the '++id' auto-increment of db.syncQueue
  lastSync,     \* settings 'lastSync' (0 is null)
  server,       \* the Activity collection of the backend: _id -> document
  nextSid,      \* the next fresh ObjectId
  now,          \* the wall clock read by new Date()
  isSyncing,    \* SyncService.isSyncing
  sp,           \* the sync() invocations: position and locals of each
  result,       \* what the last sync() call of each caller resolved to
  fp,           \* the forceSync() invocation: position and locals
  up,           \* the record-API call in flight (ActivityDB.add/update/delete)
  faults,       \* network calls and store operations that have failed so far
  hist,         \* history of the running cycle, read by the properties only
  syncInterval, \* SyncService.syncInterval: the handle of setInterval (0 is null)
  timers,       \* the handles of the intervals the browser currently runs
  nextTimer,    \* the handle the next setInterval returns
  req,          \* the request the activities router of the backend has in hand
  resp,         \* what the router has done with it
  autoSync,     \* settings 'autoSync'
  nav           \* the Navigation component: mounted, and its isOnline state

vars == <<activities, nextActId, syncQueue, nextQId, lastSync, server, nextSid,
          now, isSyncing, sp, result, fp, up, faults, hist,
          syncInterval, timers, nextTimer, req, resp, autoSync, nav>>

timerVars == <<syncInterval, timers, nextTimer>>

client == <<activities, nextActId, syncQueue, nextQId, lastSync>>

(***************************************************************************)
(* Bounds of the model.                                                    *)
(***************************************************************************)
MaxActId == 2     \* local records ever inserted
MaxQId == 3       \* queue entries ever inserted
MaxSid == 2       \* documents ever created on the backend
MaxTime == 2      \* clock values
MaxData == 2      \* distinct contents of a record
MaxFaults == 1    \* network calls and store operations that fail

(***************************************************************************)
(* Program constants.                                                      *)
(***************************************************************************)
MaxRetries == 5       \* 'if (item.retryCount >= 5)'
DefaultLimit == 50    \* 'limit = 50' of the controller's getActivities
ForceLimit == 1000    \* 'getActivities({ limit: 1000 })' of forceSync

\* The callers of sync(): the interval timer and the sync buttons.
SyncProcs == {1, 2}
Times == 1..MaxTime
Datas == 1..MaxData
\* The content of a new activity; edits change it within Datas.  A new activity
\* has started one clock value before it is saved.
NewData == 1

Min(a, b) == IF a < b THEN a ELSE b

(***************************************************************************)
(* A local record.  serverId = 0 and mongoId = 0 stand for the absent      *)
(* fields 'serverId' and '_id' (the latter arrives with the spread of a    *)
(* server document).  'data' stands for the editable content (name, notes, *)
(* tags, metrics); startTime is content too and is what the backend        *)
(* filters and sorts on.                                                   *)
(***************************************************************************)
LocalRec(st, d, sid, mid, ss, lm) ==
  [startTime |-> st, data |-> d, serverId |-> sid, mongoId |-> mid,
   syncStatus |-> ss, lastModified |-> lm]

\* A queue entry.  'carried' is history, read by the properties only: the
\* serverId the record had when its delete was called (0: none, or no delete).
QueueEntry(qid, op, aid, d, c) ==
  [id |-> qid, operation |-> op, activityId |-> aid, data |-> d, retryCount |-> 0,
   carried |-> c]

\* A document of the backend.  Three fields are history, read by the properties
\* only: 'origin' is the local id of the locally created record whose push
\* created the document (0: none), 'entry' and 'by' are the id and the
\* activityId of the queue entry whose push last wrote it (0: none).
ServerDoc(st, d, lm, o, e, a) ==
  [startTime |-> st, data |-> d, lastModified |-> lm, origin |-> o, entry |-> e,
   by |-> a]

\* A document as it travels in a response: the stored fields and its _id.
Wire(sid) ==
  [mongoId |-> sid, startTime |-> server[sid].startTime, data |-> server[sid].data,
   lastModified |-> server[sid].lastModified]

(***************************************************************************)
(* db/database.js: the table operations.                                   *)
(***************************************************************************)
\* db.activities.add({...activity, syncStatus: 'pending', lastModified: now}): the
\* two fields written after the spread replace whatever the caller passed.
ActivityAddRecord(tbl, id, st, d, sid, mid) ==
  [x \in DOMAIN tbl \cup {id} |->
     IF x = id THEN LocalRec(st, d, sid, mid, "pending", now) ELSE tbl[x]]

\* db.activities.update(id, {...updates, syncStatus: 'pending', lastModified: now})
\* with updates = {data} (a user edit); Dexie's update of a missing key changes nothing.
ActivityUpdateRecord(tbl, id, d) ==
  IF id \in DOMAIN tbl
  THEN [tbl EXCEPT ![id] = [@ EXCEPT !.data = d, !.syncStatus = "pending",
                                     !.lastModified = now]]
  ELSE tbl

\* The same with updates = {...serverActivity, serverId, syncStatus: 'synced'}.
ActivityOverwriteDrops(tbl, id, w) == [x \in DOMAIN tbl \ {id} |-> tbl[x]]

ActivityOverwriteRecord(tbl, id, w) ==
  IF id \in DOMAIN tbl
  THEN [tbl EXCEPT ![id] = LocalRec(w.startTime, w.data, w.mongoId, w.mongoId,
                                    "pending", now)]
  ELSE tbl

\* db.activities.delete(id)
ActivityDeleteRecord(tbl, id) == [x \in DOMAIN tbl \ {id} |-> tbl[x]]

\* ActivityDB.markSynced: db.activities.update(id, {syncStatus: 'synced', serverId})
MarkSyncedStatusOnly(tbl, id, sid) ==
  IF id \in DOMAIN tbl
  THEN [tbl EXCEPT ![id] = [@ EXCEPT !.syncStatus = "synced"]]
  ELSE tbl

MarkSynced(tbl, id, sid) ==
  IF id \in DOMAIN tbl
  THEN [tbl EXCEPT ![id] = [@ EXCEPT !.syncStatus = "synced", !.serverId = sid]]
  ELSE tbl

\* db.syncQueue.add: entries carry increasing timestamps, so orderBy('timestamp')
\* is the order of insertion.
QueueAdd(q, op, aid, d, c) == Append(q, QueueEntry(nextQId, op, aid, d, c))

\* SyncQueueDB.remove
QueueKeep(q, qid) == q

QueueRemove(q, qid) == SelectSeq(q, LAMBDA e : e.id # qid)

\* SyncQueueDB.incrementRetry: get the stored entry, write its retryCount + 1.
IncrementRetry(q, qid) ==
  [k \in 1..Len(q) |->
     IF q[k].id = qid THEN [q[k] EXCEPT !.retryCount = @ + 1] ELSE q[k]]

\* ActivityDB.getAll(): orderBy('startTime').reverse(), the local ids in that order
\* (descending startTime, then descending primary key).
RECURSIVE GetAllIds(_)
GetAllIds(S) ==
  IF S = {} THEN <<>>
  ELSE LET first == CHOOSE x \in S : \A y \in S :
                      \/ activities[x].startTime > activities[y].startTime
                      \/ /\ activities[x].startTime = activities[y].startTime
                         /\ x >= y
       IN <<first>> \o GetAllIds(S \ {first})

\* localActivities.find(a => a.serverId === serverActivity._id); 0 when none.
FindLocal(sid) ==
  LET ids == GetAllIds(DOMAIN activities)
      hits == {k \in 1..Len(ids) : activities[ids[k]].serverId = sid}
  IN IF hits = {} THEN 0
     ELSE ids[CHOOSE k \in hits : \A m \in hits : k <= m]

(***************************************************************************)
(* The backend's activity controller.                                      *)
(***************************************************************************)
\* Activity.find(query).sort('-startTime').limit(limit): the matching _ids in
\* descending startTime (ties in _id order).
RECURSIVE SortDocs(_)
SortDocs(S) ==
  IF S = {} THEN <<>>
  ELSE LET first == CHOOSE x \in S : \A y \in S :
                      \/ server[x].startTime > server[y].startTime
                      \/ /\ server[x].startTime = server[y].startTime
                         /\ x <= y
       IN <<first>> \o SortDocs(S \ {first})

\* exports.getActivities with filters {startDate} (0: none) and a limit.
GetActivities(startDate, limit) ==
  LET match == {s \in DOMAIN server : startDate = 0 \/ server[s].startTime >= startDate}
      ids == SortDocs(match)
      cut == SubSeq(ids, 1, Min(limit, Len(ids)))
  IN [k \in 1..Len(cut) |-> Wire(cut[k])]

\* exports.createActivity: Activity.create(req.body).  A body that carries an _id
\* keeps it, and is refused when a document with that _id exists (duplicate key).
CreateRefused(mid) == mid # 0 /\ mid \in DOMAIN server
CreateId(mid) == IF mid # 0 THEN mid ELSE nextSid
ServerCreate(mid, st, d, e, a) ==
  [x \in DOMAIN server \cup {CreateId(mid)} |->
     IF x = CreateId(mid)
     THEN ServerDoc(st, d, now, IF mid = 0 THEN a ELSE 0, e, a)
     ELSE server[x]]

\* exports.updateActivity: Object.assign(activity, req.body); lastModified = now.
ServerUpdate(sid, d, e, a) ==
  [server EXCEPT ![sid] = [@ EXCEPT !.data = d, !.lastModified = now,
                                    !.entry = e, !.by = a]]

\* exports.deleteActivity: activity.deleteOne()
ServerDelete(sid) == [x \in DOMAIN server \ {sid} |-> server[x]]

(***************************************************************************)
(* Positions and locals of the calls in flight.                            *)
(***************************************************************************)
NoPush == [success |-> 0, failed |-> 0]
NoPull == [added |-> 0, updated |-> 0, conflicts |-> 0]

\* A sync() call outside its cycle.
IdleSync ==
  [pc |-> "idle", queue |-> <<>>, i |-> 0, activity |-> <<>>, sid |-> 0,
   push |-> NoPush, since |-> 0, list |-> <<>>, j |-> 0, localId |-> 0,
   pull |-> NoPull]

\* A forceSync() call outside its run.  'cleared' is history: the queue as
\* SyncQueueDB.clear() found it, kept while the list call is awaited.
IdleForce == [pc |-> "idle", list |-> <<>>, locals |-> <<>>, k |-> 0, localId |-> 0,
              carried |-> 0, outcome |-> "none", cleared |-> <<>>]

IdleUser == [pc |-> "idle", op |-> "none", id |-> 0, data |-> 0, carried |-> 0]

\* What a call of sync() came to: kind "busy", "offline", "failed" and "completed"
\* are the objects it resolves to, "rejected" a rejected promise, "none" no
\* outcome to take.
NoResult == [kind |-> "none", success |-> FALSE, message |-> "", push |-> NoPush,
             pull |-> NoPull]
Outcome(kind, ok, msg, push, pull) ==
  [kind |-> kind, success |-> ok, message |-> msg, push |-> push, pull |-> pull]
\* return { success: false, message: 'Sync already in progress' }
Busy == Outcome("busy", FALSE, "Sync already in progress", NoPush, NoPull)
\* return { success: false, message: 'Device is offline' }
Offline == Outcome("offline", FALSE, "Device is offline", NoPush, NoPull)
\* return { success: true, message: 'Sync completed', results: { push, pull } }
Completed(push, pull) == Outcome("completed", TRUE, "Sync completed", push, pull)
\* catch (error) { return { success: false, message: error.message, error } }
SyncCatchRethrows(msg) == Outcome("rejected", FALSE, msg, NoPush, NoPull)
SyncCatch(msg) == Outcome("failed", FALSE, msg, NoPush, NoPull)

InCycle(p) == sp[p].pc # "idle"
InForce == fp.pc # "idle"

(***************************************************************************)
(* History: what has happened since the running (or last) cycle began.     *)
(*   dirty   a network call failed, or a record-API call, a forceSync step *)
(*           or a change of the backend by another client took place       *)
(*   streak  sync() cycles completed in a row with dirty = FALSE and no     *)
(*           entry failed (counted to 2)                                   *)
(*   fresh   the local id of the only record, when the cycle began with    *)
(*           exactly that record, pending and never pushed, and its        *)
(*           create entry as the whole queue; 0 otherwise                  *)
(*   fdirty  a step of anything but forceSync since forceSync began        *)
(***************************************************************************)
\* The activities router of the backend: no request in hand, nothing done.
NoRequest == [route |-> "none", key |-> 0, env |-> 0]
NoResponse == [stage |-> "none", status |-> 0, handler |-> "none"]

HistInit == [dirty |-> TRUE, streak |-> 0, fresh |-> 0, fdirty |-> TRUE]
Disturbed == HistInit
ForceStepped == [HistInit EXCEPT !.fdirty = hist.fdirty]
SyncStepped == [hist EXCEPT !.fdirty = TRUE]

FreshRecord ==
  IF /\ Cardinality(DOMAIN activities) = 1
     /\ Len(syncQueue) = 1
     /\ syncQueue[1].operation = "create"
     /\ syncQueue[1].activityId \in DOMAIN activities
     /\ activities[syncQueue[1].activityId].syncStatus = "pending"
     /\ activities[syncQueue[1].activityId].serverId = 0
     /\ activities[syncQueue[1].activityId].mongoId = 0
  THEN syncQueue[1].activityId
  ELSE 0

Init ==
  /\ activities = <<>>
  /\ nextActId = 1
  /\ syncQueue = <<>>
  /\ nextQId = 1
  /\ lastSync = 0
  /\ server = <<>>
  /\ nextSid = 1
  /\ now = 1
  /\ isSyncing = FALSE
  /\ sp = [p \in SyncProcs |-> IdleSync]
  /\ result = [p \in SyncProcs |-> NoResult]
  /\ fp = IdleForce
  /\ up = IdleUser
  /\ faults = 0
  /\ hist = HistInit
  /\ syncInterval = 0
  /\ timers = {}
  /\ nextTimer = 1
  /\ req = NoRequest
  /\ resp = NoResponse
  /\ autoSync = TRUE
  /\ nav = [mounted |-> FALSE, isOnline |-> FALSE]

(***************************************************************************)
(* The environment: time passes; another client of the backend's API       *)
(* creates, edits or deletes a document.                                   *)
(***************************************************************************)
Tick ==
  /\ now < MaxTime
  /\ now' = now + 1
  /\ UNCHANGED <<client, server, nextSid, isSyncing, sp, result, fp, up, faults, hist>>

RemoteCreate ==
  /\ nextSid <= MaxSid
  /\ server' = ServerCreate(0, now, NewData, 0, 0)
  /\ nextSid' = nextSid + 1
  /\ hist' = Disturbed
  /\ UNCHANGED <<client, now, faults, isSyncing, sp, result, fp, up>>

RemoteEdit ==
  /\ \E sid \in DOMAIN server, d \in Datas :
       /\ d # server[sid].data
       /\ server' = ServerUpdate(sid, d, 0, 0)
  /\ hist' = Disturbed
  /\ UNCHANGED <<client, nextSid, now, faults, isSyncing, sp, result, fp, up>>

RemoteDelete ==
  /\ \E sid \in DOMAIN server : server' = ServerDelete(sid)
  /\ hist' = Disturbed
  /\ UNCHANGED <<client, nextSid, now, faults, isSyncing, sp, result, fp, up>>

(***************************************************************************)
(* The record API, called by the pages: ActivityDB.add / update / delete.  *)
(* Each writes the record, awaits, then writes the queue entry.            *)
(***************************************************************************)
UserAdd ==
  /\ up.pc = "idle"
  /\ nextActId <= MaxActId
  /\ activities' = ActivityAddRecord(activities, nextActId, now - 1, NewData, 0, 0)
  /\ up' = [pc |-> "enqueue", op |-> "create", id |-> nextActId, data |-> NewData,
            carried |-> 0]
  /\ nextActId' = nextActId + 1
  /\ hist' = Disturbed
  /\ UNCHANGED <<syncQueue, nextQId, lastSync, server, nextSid, now, faults, isSyncing,
                 sp, result, fp>>

UserUpdate ==
  /\ up.pc = "idle"
  /\ \E id \in DOMAIN activities, d \in Datas :
       /\ d # activities[id].data
       /\ activities' = ActivityUpdateRecord(activities, id, d)
       /\ up' = [pc |-> "enqueue", op |-> "update", id |-> id, data |-> d, carried |-> 0]
  /\ hist' = Disturbed
  /\ UNCHANGED <<nextActId, syncQueue, nextQId, lastSync, server, nextSid, now, faults,
                 isSyncing, sp, result, fp>>

UserDelete ==
  /\ up.pc = "idle"
  /\ \E id \in DOMAIN activities :
       /\ activities' = ActivityDeleteRecord(activities, id)
       /\ up' = [pc |-> "enqueue", op |-> "delete", id |-> id, data |-> 0,
                    carried |-> activities[id].serverId]
  /\ hist' = Disturbed
  /\ UNCHANGED <<nextActId, syncQueue, nextQId, lastSync, server, nextSid, now, faults,
                 isSyncing, sp, result, fp>>

\* The second await of the three: db.syncQueue.add({operation, activityId, data, ...}).
UserEnqueue ==
  /\ up.pc = "enqueue"
  /\ nextQId <= MaxQId
  /\ syncQueue' = QueueAdd(syncQueue, up.op, up.id, up.data, up.carried)
  /\ nextQId' = nextQId + 1
  /\ up' = IdleUser
  /\ hist' = Disturbed
  /\ UNCHANGED <<activities, nextActId, lastSync, server, nextSid, now, faults, isSyncing,
                 sp, result, fp>>

(***************************************************************************)
(* SyncService.sync()                                                      *)
(***************************************************************************)
\* 'if (this.isSyncing)': the re-entrancy guard as the caller finds it.
GuardNotChecked == FALSE
GuardHeld == isSyncing

\* The return of a cycle through 'finally { this.isSyncing = false }'.
SyncReturnNoFinally(p, res) ==
  /\ sp' = [sp EXCEPT ![p] = IdleSync]
  /\ result' = [result EXCEPT ![p] = res]
  /\ isSyncing' = ~res.success
  /\ hist' = IF res.success /\ res.push.failed = 0 /\ ~hist.dirty
             THEN [hist EXCEPT !.streak = Min(@ + 1, 2), !.fdirty = TRUE]
             ELSE HistInit

SyncReturn(p, res) ==
  /\ sp' = [sp EXCEPT ![p] = IdleSync]
  /\ result' = [result EXCEPT ![p] = res]
  /\ isSyncing' = FALSE
  /\ hist' = IF res.success /\ res.push.failed = 0 /\ ~hist.dirty
             THEN [hist EXCEPT !.streak = Min(@ + 1, 2), !.fdirty = TRUE]
             ELSE HistInit

\* sync() called while a cycle holds the guard.
SyncBusy(p) ==
  /\ sp[p].pc = "idle"
  /\ GuardHeld
  /\ result' = [result EXCEPT ![p] = Busy]
  /\ UNCHANGED <<client, server, nextSid, now, faults, isSyncing, sp, fp, up, hist>>

\* sync() called with navigator.onLine false.
SyncOfflineHoldsGuard(p) ==
  /\ sp[p].pc = "idle"
  /\ ~GuardHeld
  /\ isSyncing' = TRUE
  /\ result' = [result EXCEPT ![p] = Offline]
  /\ UNCHANGED <<client, server, nextSid, now, faults, sp, fp, up, hist>>

SyncOffline(p) ==
  /\ sp[p].pc = "idle"
  /\ ~GuardHeld
  /\ result' = [result EXCEPT ![p] = Offline]
  /\ UNCHANGED <<client, server, nextSid, now, faults, isSyncing, sp, fp, up, hist>>

\* sync() called online with the guard free: take the guard, await healthCheck().
SyncAcquire(p) ==
  /\ sp[p].pc = "idle"
  /\ ~GuardHeld
  /\ isSyncing' = TRUE
  /\ sp' = [sp EXCEPT ![p] = [IdleSync EXCEPT !.pc = "health"]]
  /\ result' = [result EXCEPT ![p] = NoResult]
  /\ hist' = [hist EXCEPT !.streak = IF hist.dirty THEN 0 ELSE @,
                          !.dirty = FALSE, !.fresh = FreshRecord,
                          !.fdirty = TRUE]
  /\ UNCHANGED <<client, server, nextSid, now, faults, fp, up>>

HealthOkPullsFirst(p) ==
  /\ sp[p].pc = "health"
  /\ sp' = [sp EXCEPT ![p].pc = "pullSettings"]
  /\ hist' = SyncStepped
  /\ UNCHANGED <<client, server, nextSid, now, faults, isSyncing, result, fp, up>>

HealthOk(p) ==
  /\ sp[p].pc = "health"
  /\ sp' = [sp EXCEPT ![p].pc = "readQueue"]
  /\ hist' = SyncStepped
  /\ UNCHANGED <<client, server, nextSid, now, faults, isSyncing, result, fp, up>>

\* healthCheck() throws; sync() rethrows inside its try and returns from its catch.
HealthFailIgnored(p) ==
  /\ sp[p].pc = "health"
  /\ faults < MaxFaults
  /\ faults' = faults + 1
  /\ sp' = [sp EXCEPT ![p].pc = "readQueue"]
  /\ hist' = Disturbed
  /\ UNCHANGED <<client, server, nextSid, now, isSyncing, result, fp, up>>

HealthFail(p) ==
  /\ sp[p].pc = "health"
  /\ faults < MaxFaults
  /\ faults' = faults + 1
  /\ SyncReturn(p, SyncCatch("Backend is not reachable"))
  /\ UNCHANGED <<client, server, nextSid, now, fp, up>>

(***************************************************************************)
(* processSyncQueue                                                        *)
(***************************************************************************)
Item(p) == sp[p].queue[sp[p].i]

\* The loop's step to the next item, or the return to sync() and its call of
\* pullFromServer, whose first await is SettingsDB.get('lastSync').
AdvancePushStopsAtFailure(s) ==
  IF s.i < Len(s.queue) /\ s.push.failed = 0
  THEN [s EXCEPT !.i = @ + 1, !.pc = "getById", !.activity = <<>>, !.sid = 0]
  ELSE [s EXCEPT !.i = 0, !.pc = "pullSettings", !.activity = <<>>, !.sid = 0]

AdvancePush(s) ==
  IF s.i < Len(s.queue)
  THEN [s EXCEPT !.i = @ + 1, !.pc = "getById", !.activity = <<>>, !.sid = 0]
  ELSE [s EXCEPT !.i = 0, !.pc = "pullSettings", !.activity = <<>>, !.sid = 0]

\* const queue = await SyncQueueDB.getAll()
ReadQueue(p) ==
  /\ sp[p].pc = "readQueue"
  /\ sp' = [sp EXCEPT ![p] = AdvancePush([@ EXCEPT !.queue = syncQueue, !.i = 0])]
  /\ hist' = SyncStepped
  /\ UNCHANGED <<client, server, nextSid, now, faults, isSyncing, result, fp, up>>

\* What follows 'await ActivityDB.getById(item.activityId)' in syncCreate,
\* syncUpdate and syncDelete: the position after the read of record 'act'
\* (<<>> when there is none).
SendsUnsyncedUpdate(op, act) ==
  CASE op = "create" -> IF act = <<>> THEN "incRetry" ELSE "apiCreate"
    [] op = "update" -> IF act = <<>> THEN "incRetry" ELSE "apiUpdate"
    [] op = "delete" -> IF act # <<>> /\ act[1].serverId # 0
                        THEN "apiDelete" ELSE "remove"

MissingDeleteFails(op, act) ==
  CASE op = "create" -> IF act = <<>> THEN "incRetry" ELSE "apiCreate"
    [] op = "update" -> IF act = <<>> \/ act[1].serverId = 0
                        THEN "incRetry" ELSE "apiUpdate"
    [] op = "delete" -> IF act = <<>> THEN "incRetry"
                        ELSE IF act[1].serverId # 0 THEN "apiDelete" ELSE "remove"

AfterGetById(op, act) ==
  CASE op = "create" -> IF act = <<>> THEN "incRetry" ELSE "apiCreate"
    [] op = "update" -> IF act = <<>> \/ act[1].serverId = 0
                        THEN "incRetry" ELSE "apiUpdate"
    [] op = "delete" -> IF act # <<>> /\ act[1].serverId # 0
                        THEN "apiDelete" ELSE "remove"

GetById(p) ==
  /\ sp[p].pc = "getById"
  /\ LET aid == Item(p).activityId
         act == IF aid \in DOMAIN activities THEN <<activities[aid]>> ELSE <<>>
     IN sp' = [sp EXCEPT ![p].activity = act,
                         ![p].pc = AfterGetById(Item(p).operation, act)]
  /\ hist' = SyncStepped
  /\ UNCHANGED <<client, server, nextSid, now, faults, isSyncing, result, fp, up>>

\* apiService.createActivity(activity) answered 201.
ApiCreateOk(p) ==
  /\ sp[p].pc = "apiCreate"
  /\ LET act == sp[p].activity[1] IN
       /\ ~CreateRefused(act.mongoId)
       /\ act.mongoId = 0 => nextSid <= MaxSid
       /\ server' = ServerCreate(act.mongoId, act.startTime, act.data,
                                   Item(p).id, Item(p).activityId)
       /\ nextSid' = IF act.mongoId = 0 THEN nextSid + 1 ELSE nextSid
       /\ sp' = [sp EXCEPT ![p].sid = CreateId(act.mongoId), ![p].pc = "markSynced"]
  /\ hist' = SyncStepped
  /\ UNCHANGED <<client, now, faults, isSyncing, result, fp, up>>

\* ... answered 500: the body carries the _id of a stored document.
ApiCreateRefused(p) ==
  /\ sp[p].pc = "apiCreate"
  /\ CreateRefused(sp[p].activity[1].mongoId)
  /\ sp' = [sp EXCEPT ![p].pc = "incRetry"]
  /\ hist' = SyncStepped
  /\ UNCHANGED <<client, server, nextSid, now, faults, isSyncing, result, fp, up>>

\* ... failed on the network, before the backend saw the request or after it
\* had stored the document (the response was lost).
ApiCreateLost(p) ==
  /\ sp[p].pc = "apiCreate"
  /\ faults < MaxFaults
  /\ faults' = faults + 1
  /\ LET act == sp[p].activity[1] IN
       \/ UNCHANGED <<server, nextSid>>
       \/ /\ ~CreateRefused(act.mongoId)
          /\ act.mongoId = 0 => nextSid <= MaxSid
          /\ server' = ServerCreate(act.mongoId, act.startTime, act.data,
                                   Item(p).id, Item(p).activityId)
          /\ nextSid' = IF act.mongoId = 0 THEN nextSid + 1 ELSE nextSid
  /\ sp' = [sp EXCEPT ![p].pc = "incRetry"]
  /\ hist' = Disturbed
  /\ UNCHANGED <<client, now, isSyncing, result, fp, up>>

\* apiService.updateActivity(activity.serverId, item.data) answered 200.
ApiUpdateOk(p) ==
  /\ sp[p].pc = "apiUpdate"
  /\ sp[p].activity[1].serverId \in DOMAIN server
  /\ server' = ServerUpdate(sp[p].activity[1].serverId, Item(p).data,
                               Item(p).id, Item(p).activityId)
  /\ sp' = [sp EXCEPT ![p].sid = sp[p].activity[1].serverId, ![p].pc = "markSynced"]
  /\ hist' = SyncStepped
  /\ UNCHANGED <<client, nextSid, now, faults, isSyncing, result, fp, up>>

\* ... answered 404.
ApiUpdateNotFound(p) ==
  /\ sp[p].pc = "apiUpdate"
  /\ sp[p].activity[1].serverId \notin DOMAIN server
  /\ sp' = [sp EXCEPT ![p].pc = "incRetry"]
  /\ hist' = SyncStepped
  /\ UNCHANGED <<client, server, nextSid, now, faults, isSyncing, result, fp, up>>

ApiUpdateLost(p) ==
  /\ sp[p].pc = "apiUpdate"
  /\ faults < MaxFaults
  /\ faults' = faults + 1
  /\ \/ UNCHANGED server
     \/ /\ sp[p].activity[1].serverId \in DOMAIN server
        /\ server' = ServerUpdate(sp[p].activity[1].serverId, Item(p).data,
                               Item(p).id, Item(p).activityId)
  /\ sp' = [sp EXCEPT ![p].pc = "incRetry"]
  /\ hist' = Disturbed
  /\ UNCHANGED <<client, nextSid, now, isSyncing, result, fp, up>>

\* apiService.deleteActivity(activity.serverId) answered 200.
ApiDeleteOk(p) ==
  /\ sp[p].pc = "apiDelete"
  /\ sp[p].activity[1].serverId \in DOMAIN server
  /\ server' = ServerDelete(sp[p].activity[1].serverId)
  /\ sp' = [sp EXCEPT ![p].pc = "remove"]
  /\ hist' = SyncStepped
  /\ UNCHANGED <<client, nextSid, now, faults, isSyncing, result, fp, up>>

ApiDeleteNotFound(p) ==
  /\ sp[p].pc = "apiDelete"
  /\ sp[p].activity[1].serverId \notin DOMAIN server
  /\ sp' = [sp EXCEPT ![p].pc = "incRetry"]
  /\ hist' = SyncStepped
  /\ UNCHANGED <<client, server, nextSid, now, faults, isSyncing, result, fp, up>>

ApiDeleteLost(p) ==
  /\ sp[p].pc = "apiDelete"
  /\ faults < MaxFaults
  /\ faults' = faults + 1
  /\ \/ UNCHANGED server
     \/ /\ sp[p].activity[1].serverId \in DOMAIN server
        /\ server' = ServerDelete(sp[p].activity[1].serverId)
  /\ sp' = [sp EXCEPT ![p].pc = "incRetry"]
  /\ hist' = Disturbed
  /\ UNCHANGED <<client, nextSid, now, isSyncing, result, fp, up>>

\* await ActivityDB.markSynced(item.activityId, serverId) of syncCreate / syncUpdate
MarkSyncedStep(p) ==
  /\ sp[p].pc = "markSynced"
  /\ activities' = MarkSynced(activities, Item(p).activityId, sp[p].sid)
  /\ sp' = [sp EXCEPT ![p].pc = "remove"]
  /\ hist' = SyncStepped
  /\ UNCHANGED <<nextActId, syncQueue, nextQId, lastSync, server, nextSid, now, faults,
                 isSyncing, result, fp, up>>

\* 'await SyncQueueDB.remove(item.id); results.success++'
RemoveDone(p) ==
  /\ sp[p].pc = "remove"
  /\ syncQueue' = QueueRemove(syncQueue, Item(p).id)
  /\ sp' = [sp EXCEPT ![p] = AdvancePush([@ EXCEPT !.push.success = @ + 1])]
  /\ hist' = SyncStepped
  /\ UNCHANGED <<activities, nextActId, nextQId, lastSync, server, nextSid, now, faults,
                 isSyncing, result, fp, up>>

\* 'if (item.retryCount >= 5)': item is the entry as read at the start of the phase.
NeverTooMany(item) == FALSE

TooManyRetries(item) == item.retryCount >= MaxRetries

\* The catch of the loop: 'await SyncQueueDB.incrementRetry(item.id);
\* results.failed++', then the test of the retry ceiling.
IncRetry(p) ==
  /\ sp[p].pc = "incRetry"
  /\ syncQueue' = IncrementRetry(syncQueue, Item(p).id)
  /\ sp' = [sp EXCEPT ![p] =
              IF TooManyRetries(Item(p))
              THEN [@ EXCEPT !.push.failed = @ + 1, !.pc = "dropRetry"]
              ELSE AdvancePush([@ EXCEPT !.push.failed = @ + 1])]
  /\ hist' = SyncStepped
  /\ UNCHANGED <<activities, nextActId, nextQId, lastSync, server, nextSid, now, faults,
                 isSyncing, result, fp, up>>

\* 'await SyncQueueDB.remove(item.id)' after too many retries.
DropRetry(p) ==
  /\ sp[p].pc = "dropRetry"
  /\ syncQueue' = QueueRemove(syncQueue, Item(p).id)
  /\ sp' = [sp EXCEPT ![p] = AdvancePush(@)]
  /\ hist' = SyncStepped
  /\ UNCHANGED <<activities, nextActId, nextQId, lastSync, server, nextSid, now, faults,
                 isSyncing, result, fp, up>>

(***************************************************************************)
(* pullFromServer                                                          *)
(***************************************************************************)
\* The loop's step to the next server activity, or the return to sync() and
\* its 'await SettingsDB.set('lastSync', ...)'.
AdvancePull(s) ==
  IF s.j < Len(s.list)
  THEN [s EXCEPT !.j = @ + 1, !.pc = "pullGetAll", !.localId = 0]
  ELSE [s EXCEPT !.j = 0, !.list = <<>>, !.pc = "setLastSync", !.localId = 0]

\* const lastSync = await SettingsDB.get('lastSync');
\* filters = lastSync ? { startDate: lastSync } : {}
PullSettings(p) ==
  /\ sp[p].pc = "pullSettings"
  /\ sp' = [sp EXCEPT ![p].since = lastSync, ![p].pc = "apiList"]
  /\ hist' = SyncStepped
  /\ UNCHANGED <<client, server, nextSid, now, faults, isSyncing, result, fp, up>>

\* const response = await apiService.getActivities(filters)
ApiListOk(p) ==
  /\ sp[p].pc = "apiList"
  /\ sp' = [sp EXCEPT ![p] =
              AdvancePull([@ EXCEPT !.list = GetActivities(sp[p].since, DefaultLimit),
                                    !.j = 0])]
  /\ hist' = SyncStepped
  /\ UNCHANGED <<client, server, nextSid, now, faults, isSyncing, result, fp, up>>

\* The call throws: pullFromServer rethrows, sync() returns from its catch.
ApiListFailStamps(p) ==
  /\ sp[p].pc = "apiList"
  /\ faults < MaxFaults
  /\ faults' = faults + 1
  /\ lastSync' = now
  /\ SyncReturn(p, SyncCatch("Network Error"))
  /\ UNCHANGED <<activities, nextActId, syncQueue, nextQId, server, nextSid, now, fp, up>>

ApiListFail(p) ==
  /\ sp[p].pc = "apiList"
  /\ faults < MaxFaults
  /\ faults' = faults + 1
  /\ SyncReturn(p, SyncCatch("Network Error"))
  /\ UNCHANGED <<client, server, nextSid, now, fp, up>>

Remote(p) == sp[p].list[sp[p].j]

\* 'serverModified > localModified'
ServerNotOlder(w, rec) == w.lastModified >= rec.lastModified

ServerNewer(w, rec) == w.lastModified > rec.lastModified

\* 'serverModified > localModified && localActivity.syncStatus === 'pending''
AnyNewerIsConflict(w, rec) == ServerNewer(w, rec)

IsConflict(w, rec) == ServerNewer(w, rec) /\ rec.syncStatus = "pending"

\* 'const localActivities = await ActivityDB.getAll()', the find and the tests.
PullGetAll(p) ==
  /\ sp[p].pc = "pullGetAll"
  /\ LET w == Remote(p)
         loc == FindLocal(w.mongoId)
     IN sp' = [sp EXCEPT ![p] =
                 IF loc = 0 THEN [@ EXCEPT !.pc = "pullAdd"]
                 ELSE IF ServerNewer(w, activities[loc])
                 THEN [@ EXCEPT !.pc = "pullUpdate", !.localId = loc,
                                !.pull.conflicts =
                                   IF IsConflict(w, activities[loc]) THEN @ + 1 ELSE @]
                 ELSE AdvancePull(@)]
  /\ hist' = SyncStepped
  /\ UNCHANGED <<client, server, nextSid, now, faults, isSyncing, result, fp, up>>

\* ActivityDB.update(localActivity.id, {...serverActivity, serverId, syncStatus:
\* 'synced'}), first await: db.activities.update
PullUpdateRecord(p) ==
  /\ sp[p].pc = "pullUpdate"
  /\ activities' = ActivityOverwriteRecord(activities, sp[p].localId, Remote(p))
  /\ sp' = [sp EXCEPT ![p].pc = "pullUpdateQueue"]
  /\ hist' = SyncStepped
  /\ UNCHANGED <<nextActId, syncQueue, nextQId, lastSync, server, nextSid, now, faults,
                 isSyncing, result, fp, up>>

\* ... second await: db.syncQueue.add({operation: 'update', ...}); results.updated++
PullUpdateQueue(p) ==
  /\ sp[p].pc = "pullUpdateQueue"
  /\ nextQId <= MaxQId
  /\ syncQueue' = QueueAdd(syncQueue, "update", sp[p].localId, Remote(p).data, 0)
  /\ nextQId' = nextQId + 1
  /\ sp' = [sp EXCEPT ![p] = AdvancePull([@ EXCEPT !.pull.updated = @ + 1])]
  /\ hist' = SyncStepped
  /\ UNCHANGED <<activities, nextActId, lastSync, server, nextSid, now, faults, isSyncing,
                 result, fp, up>>

\* ActivityDB.add({...serverActivity, serverId, syncStatus: 'synced'}), first
\* await: db.activities.add
PullAddRecord(p) ==
  /\ sp[p].pc = "pullAdd"
  /\ nextActId <= MaxActId
  /\ LET w == Remote(p) IN
       activities' = ActivityAddRecord(activities, nextActId, w.startTime, w.data,
                                       w.mongoId, w.mongoId)
  /\ nextActId' = nextActId + 1
  /\ sp' = [sp EXCEPT ![p].localId = nextActId, ![p].pc = "pullAddQueue"]
  /\ hist' = SyncStepped
  /\ UNCHANGED <<syncQueue, nextQId, lastSync, server, nextSid, now, faults, isSyncing,
                 result, fp, up>>

\* ... second await: db.syncQueue.add({operation: 'create', ...}); results.added++
PullAddQueue(p) ==
  /\ sp[p].pc = "pullAddQueue"
  /\ nextQId <= MaxQId
  /\ syncQueue' = QueueAdd(syncQueue, "create", sp[p].localId, Remote(p).data, 0)
  /\ nextQId' = nextQId + 1
  /\ sp' = [sp EXCEPT ![p] = AdvancePull([@ EXCEPT !.pull.added = @ + 1])]
  /\ hist' = SyncStepped
  /\ UNCHANGED <<activities, nextActId, lastSync, server, nextSid, now, faults, isSyncing,
                 result, fp, up>>

\* await SettingsDB.set('lastSync', new Date().toISOString()); return {success: true, ...}
SetLastSync(p) ==
  /\ sp[p].pc = "setLastSync"
  /\ lastSync' = now
  /\ SyncReturn(p, Completed(sp[p].push, sp[p].pull))
  /\ UNCHANGED <<activities, nextActId, syncQueue, nextQId, server, nextSid, now, faults,
                 fp, up>>

\* A local-store operation of the cycle throws.  Inside the try of the push loop
\* (getById, markSynced, remove) the loop's catch takes it; anywhere else it
\* reaches the catch of sync().
InLoopTry(pc) == pc \in {"getById", "markSynced", "remove"}
StoreAwait(pc) ==
  pc \in {"readQueue", "incRetry", "dropRetry", "pullSettings", "pullGetAll",
          "pullUpdate", "pullUpdateQueue", "pullAdd", "pullAddQueue", "setLastSync"}

LocalStoreFail(p) ==
  /\ faults < MaxFaults
  /\ faults' = faults + 1
  /\ \/ /\ InLoopTry(sp[p].pc)
        /\ sp' = [sp EXCEPT ![p].pc = "incRetry"]
        /\ hist' = Disturbed
        /\ UNCHANGED <<client, server, nextSid, now, isSyncing, result, fp, up>>
     \/ /\ StoreAwait(sp[p].pc)
        /\ SyncReturn(p, SyncCatch("DatabaseError"))
        /\ UNCHANGED <<client, server, nextSid, now, fp, up>>

(***************************************************************************)
(* SyncService.forceSync()                                                 *)
(***************************************************************************)
\* forceSync() called with navigator.onLine false: it throws.
ForceOfflineAfterClear ==
  /\ fp.pc = "idle"
  /\ syncQueue' = <<>>
  /\ fp' = [IdleForce EXCEPT !.outcome = "rejected"]
  /\ hist' = ForceStepped
  /\ UNCHANGED <<activities, nextActId, nextQId, lastSync, server, nextSid, now, faults,
                 isSyncing, sp, result, up>>

ForceOffline ==
  /\ fp.pc = "idle"
  /\ fp' = [IdleForce EXCEPT !.outcome = "rejected"]
  /\ hist' = ForceStepped
  /\ UNCHANGED <<client, server, nextSid, now, faults, isSyncing, sp, result, up>>

\* forceSync() called online: await SyncQueueDB.clear()
ForceClear ==
  /\ fp.pc = "idle"
  /\ syncQueue' = <<>>
  /\ fp' = [IdleForce EXCEPT !.pc = "list", !.cleared = syncQueue]
  /\ hist' = [HistInit EXCEPT !.fdirty = FALSE]
  /\ UNCHANGED <<activities, nextActId, nextQId, lastSync, server, nextSid, now, faults,
                 isSyncing, sp, result, up>>

\* const response = await apiService.getActivities({ limit: 1000 })
ForceListOk ==
  /\ fp.pc = "list"
  /\ fp' = [fp EXCEPT !.list = GetActivities(0, ForceLimit), !.pc = "getAll",
                       !.cleared = <<>>]
  /\ hist' = ForceStepped
  /\ UNCHANGED <<client, server, nextSid, now, faults, isSyncing, sp, result, up>>

\* The call throws; forceSync rethrows from its catch.
ForceListFail ==
  /\ fp.pc = "list"
  /\ faults < MaxFaults
  /\ faults' = faults + 1
  /\ fp' = [IdleForce EXCEPT !.outcome = "rejected"]
  /\ hist' = Disturbed
  /\ UNCHANGED <<client, server, nextSid, now, isSyncing, sp, result, up>>

\* The position after the delete loop has handled fp.locals[1..k].
ForceAfterDelete(f) ==
  IF f.k < Len(f.locals)
  THEN [f EXCEPT !.k = @ + 1, !.pc = "delete", !.carried = 0]
  ELSE IF Len(f.list) > 0
  THEN [f EXCEPT !.k = 1, !.locals = <<>>, !.pc = "add", !.carried = 0]
  ELSE [f EXCEPT !.k = 0, !.locals = <<>>, !.pc = "setLastSync", !.carried = 0]

\* The position after the add loop has handled fp.list[1..k].
ForceAfterAdd(f) ==
  IF f.k < Len(f.list)
  THEN [f EXCEPT !.k = @ + 1, !.pc = "add", !.localId = 0]
  ELSE [f EXCEPT !.k = 0, !.pc = "setLastSync", !.localId = 0]

\* const localActivities = await ActivityDB.getAll()
ForceGetAll ==
  /\ fp.pc = "getAll"
  /\ fp' = ForceAfterDelete([fp EXCEPT !.locals = GetAllIds(DOMAIN activities),
                                       !.k = 0])
  /\ hist' = ForceStepped
  /\ UNCHANGED <<client, server, nextSid, now, faults, isSyncing, sp, result, up>>

\* ActivityDB.delete(activity.id), first await: db.activities.delete
ForceDeleteRecord ==
  /\ fp.pc = "delete"
  /\ activities' = ActivityDeleteRecord(activities, fp.locals[fp.k])
  /\ fp' = [fp EXCEPT !.pc = "deleteQueue",
                      !.carried = IF fp.locals[fp.k] \in DOMAIN activities
                                  THEN activities[fp.locals[fp.k]].serverId ELSE 0]
  /\ hist' = ForceStepped
  /\ UNCHANGED <<nextActId, syncQueue, nextQId, lastSync, server, nextSid, now, faults,
                 isSyncing, sp, result, up>>

\* ... second await: db.syncQueue.add({operation: 'delete', ...})
ForceDeleteQueue ==
  /\ fp.pc = "deleteQueue"
  /\ nextQId <= MaxQId
  /\ syncQueue' = QueueAdd(syncQueue, "delete", fp.locals[fp.k], 0, fp.carried)
  /\ nextQId' = nextQId + 1
  /\ fp' = ForceAfterDelete(fp)
  /\ hist' = ForceStepped
  /\ UNCHANGED <<activities, nextActId, lastSync, server, nextSid, now, faults, isSyncing,
                 sp, result, up>>

\* ActivityDB.add({...serverActivity, serverId, syncStatus: 'synced'}), first await
ForceAddRecord ==
  /\ fp.pc = "add"
  /\ nextActId <= MaxActId
  /\ LET w == fp.list[fp.k] IN
       activities' = ActivityAddRecord(activities, nextActId, w.startTime, w.data,
                                       w.mongoId, w.mongoId)
  /\ nextActId' = nextActId + 1
  /\ fp' = [fp EXCEPT !.localId = nextActId, !.pc = "addQueue"]
  /\ hist' = ForceStepped
  /\ UNCHANGED <<syncQueue, nextQId, lastSync, server, nextSid, now, faults, isSyncing,
                 sp, result, up>>

\* ... second await: db.syncQueue.add({operation: 'create', ...})
ForceAddQueue ==
  /\ fp.pc = "addQueue"
  /\ nextQId <= MaxQId
  /\ syncQueue' = QueueAdd(syncQueue, "create", fp.localId, fp.list[fp.k].data, 0)
  /\ nextQId' = nextQId + 1
  /\ fp' = ForceAfterAdd(fp)
  /\ hist' = ForceStepped
  /\ UNCHANGED <<activities, nextActId, lastSync, server, nextSid, now, faults, isSyncing,
                 sp, result, up>>

\* await SettingsDB.set('lastSync', ...); return { success: true, count }
\* The list the backend reported stays in fp.list for the properties to read.
ForceSetLastSync ==
  /\ fp.pc = "setLastSync"
  /\ lastSync' = now
  /\ fp' = [fp EXCEPT !.pc = "idle", !.outcome = "resolved"]
  /\ hist' = ForceStepped
  /\ UNCHANGED <<activities, nextActId, syncQueue, nextQId, server, nextSid, now, faults,
                 isSyncing, sp, result, up>>

(***************************************************************************)
(* The continuation of the caller ('const result = await syncService.sync()'*)
(* of the pages, 'await syncService.forceSync()' of the settings page): it *)
(* runs as a microtask, before any other callback, and takes the outcome.  *)
(***************************************************************************)
Delivered == fp.outcome = "none" /\ \A p \in SyncProcs : result[p].kind = "none"

ResultSeen(p) ==
  /\ result[p].kind # "none"
  /\ result' = [result EXCEPT ![p] = NoResult]
  /\ UNCHANGED <<client, server, nextSid, now, faults, isSyncing, sp, fp, up, hist>>

ForceSeen ==
  /\ fp.outcome # "none"
  /\ fp' = IdleForce
  /\ UNCHANGED <<client, server, nextSid, now, faults, isSyncing, sp, result, up, hist>>

(***************************************************************************)
(* The specifications.                                                     *)
(*                                                                         *)
(* sync() has two callers, the interval timer of startAutoSync and the     *)
(* pages' sync buttons, and either may call at any moment.  Quiet holds    *)
(* when no call of any kind is in flight.                                  *)
(*                                                                         *)
(* The position "apiDelete" is never reached (DeleteNeverSent below): a    *)
(* delete entry is written only after its record has left db.activities,   *)
(* so syncDelete never finds a record.  ApiDeleteOk, ApiDeleteNotFound     *)
(* and ApiDeleteLost are therefore in no next-state relation.              *)
(***************************************************************************)
Quiet ==
  /\ Delivered
  /\ up.pc = "idle" /\ fp.pc = "idle" /\ \A p \in SyncProcs : sp[p].pc = "idle"

NoOtherCall == Delivered /\ up.pc = "idle" /\ fp.pc = "idle"

SyncCall(p) == SyncBusy(p) \/ SyncOffline(p) \/ SyncAcquire(p)

SyncCycleStep(p) ==
  \/ HealthOk(p) \/ HealthFail(p)
  \/ ReadQueue(p) \/ GetById(p)
  \/ ApiCreateOk(p) \/ ApiCreateRefused(p) \/ ApiCreateLost(p)
  \/ ApiUpdateOk(p) \/ ApiUpdateLost(p)
  \/ MarkSyncedStep(p) \/ RemoveDone(p) \/ IncRetry(p) \/ DropRetry(p)
  \/ PullSettings(p) \/ ApiListOk(p) \/ ApiListFail(p) \/ PullGetAll(p)
  \/ PullUpdateRecord(p) \/ PullUpdateQueue(p) \/ PullAddRecord(p) \/ PullAddQueue(p)
  \/ SetLastSync(p)

ForceCall == ForceOffline \/ ForceClear

ForceCycleStep ==
  \/ ForceListOk \/ ForceListFail \/ ForceGetAll
  \/ ForceDeleteRecord \/ ForceDeleteQueue \/ ForceAddRecord \/ ForceAddQueue
  \/ ForceSetLastSync

UserCall == UserAdd \/ UserUpdate \/ UserDelete

\* The sync service's calls and cycles leave the auto-sync timer, the
\* backend's request in hand, the autoSync setting and the navigation bar alone.
Apart == UNCHANGED <<syncInterval, timers, nextTimer, req, resp, autoSync, nav>>

\* Calls of the record API, of forceSync() and cycles of sync() one at a time;
\* sync() itself is called at any moment of a cycle.
Next ==
  \/ Apart /\ Delivered /\ Tick
  \/ Apart /\ Quiet /\ UserCall
  \/ Apart /\ UserEnqueue
  \/ Apart /\ Quiet /\ ForceCall
  \/ Apart /\ Delivered /\ ForceCycleStep
  \/ \E p \in SyncProcs : Apart /\ NoOtherCall /\ SyncCall(p)
  \/ \E p \in SyncProcs : Apart /\ Delivered /\ SyncCycleStep(p)
  \/ \E p \in SyncProcs : Apart /\ ResultSeen(p)
  \/ Apart /\ ForceSeen

Spec == Init /\ [][Next]_vars

\* The same, and a local-store operation of the cycle may throw.
FaultNext ==
  \/ Next
  \/ \E p \in SyncProcs : Apart /\ Delivered /\ LocalStoreFail(p)

FaultSpec == Init /\ [][FaultNext]_vars

\* The interval timer and the sync buttons call sync() at any moment of a
\* forceSync() as well.
ForceNext ==
  \/ Apart /\ Delivered /\ Tick
  \/ Apart /\ Quiet /\ UserCall
  \/ Apart /\ UserEnqueue
  \/ Apart /\ Quiet /\ ForceCall
  \/ Apart /\ Delivered /\ ForceCycleStep
  \/ \E p \in SyncProcs : Apart /\ Delivered /\ up.pc = "idle" /\ SyncCall(p)
  \/ \E p \in SyncProcs : Apart /\ Delivered /\ SyncCycleStep(p)
  \/ \E p \in SyncProcs : Apart /\ ResultSeen(p)
  \/ Apart /\ ForceSeen

ForceSpec == Init /\ [][ForceNext]_vars

(***************************************************************************)
(* Convergence.  While Open holds the user calls the record API and         *)
(* forceSync(), and network calls fail; once the clock has reached MaxTime  *)
(* none of that happens any more, connectivity and the backend stay         *)
(* available, and sync() keeps being called (by one caller, so that no call *)
(* is answered busy).                                                       *)
(***************************************************************************)
Open == now < MaxTime

LiveCycleStep(p) ==
  \/ HealthOk(p) \/ ReadQueue(p) \/ GetById(p)
  \/ ApiCreateOk(p) \/ ApiCreateRefused(p) \/ ApiUpdateOk(p)
  \/ MarkSyncedStep(p) \/ RemoveDone(p) \/ IncRetry(p) \/ DropRetry(p)
  \/ PullSettings(p) \/ ApiListOk(p) \/ PullGetAll(p)
  \/ PullUpdateRecord(p) \/ PullUpdateQueue(p) \/ PullAddRecord(p) \/ PullAddQueue(p)
  \/ SetLastSync(p)

LiveFault(p) ==
  HealthFail(p) \/ ApiCreateLost(p) \/ ApiUpdateLost(p) \/ ApiListFail(p)

LiveForceStep ==
  \/ ForceListOk \/ ForceGetAll
  \/ ForceDeleteRecord \/ ForceDeleteQueue \/ ForceAddRecord \/ ForceAddQueue
  \/ ForceSetLastSync

\* What the program does by itself, given time: the steps of the calls in
\* flight, and the next call of sync().
LiveProgress ==
  \/ Apart /\ UserEnqueue
  \/ Apart /\ Delivered /\ LiveForceStep
  \/ Apart /\ ForceSeen
  \/ Apart /\ NoOtherCall /\ SyncAcquire(1)
  \/ Apart /\ Delivered /\ LiveCycleStep(1)
  \/ Apart /\ ResultSeen(1)

LiveNext ==
  \/ Apart /\ Delivered /\ Tick
  \/ Apart /\ Open /\ Quiet /\ nextQId <= MaxQId /\ UserCall
  \/ Apart /\ Open /\ Quiet /\ ForceClear
  \/ Apart /\ Open /\ Delivered /\ LiveFault(1)
  \/ LiveProgress

LiveSpec ==
  /\ Init /\ [][LiveNext]_vars
  /\ SF_vars(Apart /\ Delivered /\ Tick)
  /\ WF_vars(LiveProgress)

\* A call in flight stands before a write that the bounds of the model do not
\* let it make.
BoundStuck ==
  \/ \E p \in SyncProcs :
       \/ sp[p].pc \in {"pullUpdateQueue", "pullAddQueue"} /\ nextQId > MaxQId
       \/ sp[p].pc = "pullAdd" /\ nextActId > MaxActId
       \/ /\ sp[p].pc = "apiCreate"
          /\ sp[p].activity[1].mongoId = 0
          /\ nextSid > MaxSid
  \/ fp.pc \in {"deleteQueue", "addQueue"} /\ nextQId > MaxQId
  \/ fp.pc = "add" /\ nextActId > MaxActId
  \/ up.pc = "enqueue" /\ nextQId > MaxQId

\* Every local record is synced under a remote identifier and the queue is empty.
Converged ==
  /\ syncQueue = <<>>
  /\ \A id \in DOMAIN activities :
       activities[id].syncStatus = "synced" /\ activities[id].serverId # 0

\* The pages call the record API at any moment of a sync() cycle, and sync() is
\* called between the two writes of a record-API call as well; no call fails.
UserNext ==
  \/ Apart /\ Delivered /\ Tick
  \/ Apart /\ Delivered /\ up.pc = "idle" /\ fp.pc = "idle" /\ UserCall
  \/ Apart /\ UserEnqueue
  \/ \E p \in SyncProcs : Apart /\ Delivered /\ fp.pc = "idle" /\ SyncCall(p)
  \/ \E p \in SyncProcs : Apart /\ Delivered /\ LiveCycleStep(p)
  \/ \E p \in SyncProcs : Apart /\ ResultSeen(p)

UserSpec == Init /\ [][UserNext]_vars

\* No sync() cycle ever stands at the call of apiService.deleteActivity.
DeleteNeverSent == \A p \in SyncProcs : sp[p].pc # "apiDelete"

(***************************************************************************)
(* Another client of the backend's API creates and edits documents between *)
(* the calls of this client, which go one at a time; no call fails.        *)
(***************************************************************************)
RemoteNext ==
  \/ Apart /\ Delivered /\ Tick
  \/ Apart /\ Quiet /\ RemoteCreate
  \/ Apart /\ Quiet /\ RemoteEdit
  \/ Apart /\ Quiet /\ UserCall
  \/ Apart /\ UserEnqueue
  \/ Apart /\ NoOtherCall /\ SyncAcquire(1)
  \/ Apart /\ Delivered /\ LiveCycleStep(1)
  \/ Apart /\ ResultSeen(1)

RemoteSpec == Init /\ [][RemoteNext]_vars

(***************************************************************************)
(* forceSync() and a cycle of sync() overlap (forceSync() does not look at *)
(* isSyncing), over documents that another client has created; the user    *)
(* makes no local mutation.                                                *)
(***************************************************************************)
OverlapCycleStep(p) ==
  \/ HealthOk(p) \/ ReadQueue(p) \/ GetById(p)
  \/ ApiCreateRefused(p) \/ IncRetry(p) \/ DropRetry(p)
  \/ PullSettings(p) \/ ApiListOk(p) \/ PullGetAll(p)
  \/ PullAddRecord(p) \/ PullAddQueue(p)
  \/ SetLastSync(p)

OverlapNext ==
  \/ Apart /\ Quiet /\ RemoteCreate
  \/ Apart /\ Delivered /\ ForceCall
  \/ Apart /\ Delivered /\ ForceCycleStep
  \/ Apart /\ Delivered /\ SyncAcquire(1)
  \/ Apart /\ Delivered /\ OverlapCycleStep(1)
  \/ Apart /\ ResultSeen(1)
  \/ Apart /\ ForceSeen

OverlapSpec == Init /\ [][OverlapNext]_vars

(***************************************************************************)
(* SyncService.startAutoSync / stopAutoSync and the interval of the        *)
(* browser.  setInterval returns a fresh positive handle and the browser   *)
(* runs the interval until clearInterval is called with that handle.       *)
(***************************************************************************)
MaxTimers == 3    \* calls of setInterval

\* 'if (this.syncInterval) clearInterval(this.syncInterval)'
ClearInterval(running, handle) == IF handle # 0 THEN running \ {handle} ELSE running

\* The timer part of startAutoSync: clear the interval in hand, set a new one.
StartTimerKeepsOld ==
  /\ nextTimer <= MaxTimers
  /\ timers' = timers \cup {nextTimer}
  /\ syncInterval' = nextTimer
  /\ nextTimer' = nextTimer + 1

StartTimer ==
  /\ nextTimer <= MaxTimers
  /\ timers' = ClearInterval(timers, syncInterval) \cup {nextTimer}
  /\ syncInterval' = nextTimer
  /\ nextTimer' = nextTimer + 1

\* startAutoSync(): the timer, then 'this.sync()' at once.
StartAutoSync ==
  /\ StartTimer
  /\ NoOtherCall
  /\ \E p \in SyncProcs : SyncCall(p)
  /\ UNCHANGED <<req, resp>>

\* stopAutoSync(): 'if (this.syncInterval) { clearInterval(this.syncInterval);
\* this.syncInterval = null }'
StopAutoSync ==
  /\ timers' = ClearInterval(timers, syncInterval)
  /\ syncInterval' = 0
  /\ UNCHANGED <<client, server, nextSid, now, isSyncing, sp, result, fp, up, faults,
                 hist, nextTimer, req, resp>>

\* An interval of the browser fires: '() => { this.sync(); }'.
TimerFire ==
  /\ timers # {}
  /\ NoOtherCall
  /\ \E p \in SyncProcs : SyncCall(p)
  /\ Apart

\* The steps of a cycle over an empty queue and an empty backend.
AutoCycleStep(p) ==
  \/ HealthOk(p) \/ HealthFail(p) \/ ReadQueue(p)
  \/ PullSettings(p) \/ ApiListOk(p) \/ ApiListFail(p) \/ SetLastSync(p)

\* The navigation bar starts and stops auto-sync at any moment (online and
\* offline events, the auto-sync toggle), the intervals fire, time passes.
TimerNext ==
  \/ StartAutoSync /\ UNCHANGED <<autoSync, nav>>
  \/ StopAutoSync /\ UNCHANGED <<autoSync, nav>>
  \/ TimerFire
  \/ Apart /\ Delivered /\ Tick
  \/ \E p \in SyncProcs : Apart /\ Delivered /\ AutoCycleStep(p)
  \/ \E p \in SyncProcs : Apart /\ ResultSeen(p)

TimerSpec == Init /\ [][TimerNext]_vars

(***************************************************************************)
(* The navigation bar and the settings page.  Navigation's effect, keyed   *)
(* on [isOnline], calls startAutoSync(5) when isOnline is true; its        *)
(* cleanup calls stopAutoSync().  The settings page stores the autoSync    *)
(* setting and starts or stops auto-sync when the user toggles it.         *)
(***************************************************************************)
\* Navigation mounts: useState(navigator.onLine), then the effect runs.
NavMount ==
  /\ ~nav.mounted
  /\ \E online \in BOOLEAN :
       /\ nav' = [mounted |-> TRUE, isOnline |-> online]
       /\ IF online THEN StartAutoSync
          ELSE UNCHANGED <<client, server, nextSid, now, isSyncing, sp, result, fp,
                           up, faults, hist, syncInterval, timers, nextTimer, req, resp>>
  /\ UNCHANGED autoSync

\* Navigation unmounts: the cleanup of the effect.
NavUnmount ==
  /\ nav.mounted
  /\ nav' = [mounted |-> FALSE, isOnline |-> FALSE]
  /\ StopAutoSync
  /\ UNCHANGED autoSync

\* The 'online' event while isOnline is false: the cleanup of the previous
\* effect (stopAutoSync, nothing to clear beyond what startAutoSync clears),
\* then the effect.
NavOnline ==
  /\ nav.mounted /\ ~nav.isOnline
  /\ nav' = [nav EXCEPT !.isOnline = TRUE]
  /\ StartAutoSync
  /\ UNCHANGED autoSync

\* The 'offline' event while isOnline is true: the cleanup; the effect does
\* nothing.
NavOffline ==
  /\ nav.mounted /\ nav.isOnline
  /\ nav' = [nav EXCEPT !.isOnline = FALSE]
  /\ StopAutoSync
  /\ UNCHANGED autoSync

\* SettingsPage.handleAutoSyncToggle (the page is rendered under the navigation bar)
AutoSyncToggle ==
  /\ nav.mounted
  /\ autoSync' = ~autoSync
  /\ IF autoSync' THEN StartAutoSync ELSE StopAutoSync
  /\ UNCHANGED nav

NavNext ==
  \/ NavMount
  \/ NavUnmount
  \/ NavOnline
  \/ NavOffline
  \/ AutoSyncToggle
  \/ TimerFire
  \/ Apart /\ Delivered /\ Tick
  \/ \E p \in SyncProcs : Apart /\ Delivered /\ AutoCycleStep(p)
  \/ \E p \in SyncProcs : Apart /\ ResultSeen(p)

NavSpec == Init /\ [][NavNext]_vars

(***************************************************************************)
(* The activities router of the backend: router.use(apiKeyAuth), then the  *)
(* routes.  A key is 0 when the header is absent (or empty), env is 0 when  *)
(* process.env.API_KEY is not set.                                         *)
(***************************************************************************)
MaxKey == 2       \* distinct API keys

Keys == 0 .. MaxKey

Routes == {"getStats", "syncActivities", "getActivities", "createActivity",
           "getActivity", "updateActivity", "deleteActivity", "exportGPX"}

\* The status apiKeyAuth answers with, 0 when it calls next().
PresenceOnly(key, env) == IF key = 0 THEN 401 ELSE 0

apiKeyAuth(key, env) ==
  IF key = 0 THEN 401
  ELSE IF key # env THEN 403
  ELSE 0

\* A request for one of the routes reaches the router.
Receive ==
  /\ req = NoRequest
  /\ \E r \in Routes, k \in Keys, e \in Keys :
       req' = [route |-> r, key |-> k, env |-> e]
  /\ resp' = [NoResponse EXCEPT !.stage = "auth"]

\* router.use(apiKeyAuth): the first layer of the router.
AuthLayer ==
  /\ resp.stage = "auth"
  /\ LET verdict == apiKeyAuth(req.key, req.env)
     IN resp' = IF verdict = 0
                THEN [resp EXCEPT !.stage = "route"]
                ELSE [resp EXCEPT !.stage = "sent", !.status = verdict]
  /\ UNCHANGED req

\* next(): the route's handler runs and answers with a status of its own.
RouteLayer ==
  /\ resp.stage = "route"
  /\ \E st \in {200, 404, 500} :
       resp' = [resp EXCEPT !.stage = "sent", !.status = st, !.handler = req.route]
  /\ UNCHANGED req

\* The response is out.
Respond ==
  /\ resp.stage = "sent"
  /\ req' = NoRequest
  /\ resp' = NoResponse

Served == UNCHANGED <<client, server, nextSid, now, isSyncing, sp, result, fp, up,
                      faults, hist, syncInterval, timers, nextTimer, autoSync, nav>>

AuthNext ==
  \/ Served /\ Receive
  \/ Served /\ AuthLayer
  \/ Served /\ RouteLayer
  \/ Served /\ Respond

AuthSpec == Init /\ [][AuthNext]_vars

(***************************************************************************)
(* Properties.                                                             *)
(***************************************************************************)
\* The step in which caller q's call of sync() runs its synchronous head: q
\* is outside a cycle before it, and after it q is in a cycle or has an outcome.
CalledSync(q) ==
  /\ ~InCycle(q)
  /\ result[q].kind = "none"
  /\ InCycle(q)' \/ result'[q].kind # "none"

\* C1: a call of sync() made while another caller's cycle is running gets the
\* busy result, starts no cycle of its own, and leaves the local records, the
\* queue, the last-sync setting, the backend, the guard and the running cycle
\* as they were.
C1_OverlappingCallIsBusy ==
  [][\A q \in SyncProcs :
       (CalledSync(q) /\ \E p \in SyncProcs \ {q} : InCycle(p))
         => /\ result'[q] = Busy
            /\ UNCHANGED <<client, server, nextSid, isSyncing, sp>>]_vars

C1_Witness ==
  \E p \in SyncProcs, q \in SyncProcs :
    /\ p # q
    /\ sp[p].pc = "apiCreate"
    /\ isSyncing
    /\ result[q].kind = "busy"

\* C2: no sync() cycle and forceSync() are in flight at the same time.
C2_SyncForceExclusive ==
  ~(InForce /\ \E p \in SyncProcs : InCycle(p))

\* C3: whenever no sync() cycle is executing the guard is free, whichever way
\* the last cycle ended (completed, health check failed, pull failed, a store
\* operation threw), so a call of sync() is then never answered busy.
C3_GuardFreeOutsideCycle ==
  (\A p \in SyncProcs : ~InCycle(p)) => ~GuardHeld

C3_Witness ==
  /\ \A p \in SyncProcs : ~InCycle(p)
  /\ \E p \in SyncProcs : result[p].kind = "failed" /\ result[p].message = "DatabaseError"
  /\ ~isSyncing

\* C4: every outcome of sync() is a resolved object with a boolean success
\* flag and a message, never a rejection, whichever call of the cycle failed.
C4_SyncAlwaysResolves ==
  \A p \in SyncProcs :
    /\ result[p].kind \in {"none", "busy", "offline", "failed", "completed"}
    /\ result[p].kind # "none" =>
         /\ result[p].success \in BOOLEAN
         /\ result[p].message # ""
         /\ result[p].success <=> result[p].kind = "completed"

C4_Witness ==
  \E p \in SyncProcs :
    /\ result[p].kind = "failed"
    /\ result[p].message = "Network Error"
    /\ faults > 0

\* C5: a cycle that began with one record, created locally and never pushed,
\* and its create entry as the whole queue, and met no failure, ends with
\* success, one pushed entry, the record synced under a remote identifier, and
\* the queue empty.
C5_FreshRecordEndsSynced ==
  \A p \in SyncProcs :
    (result[p].kind \in {"failed", "completed"} /\ ~hist.dirty /\ hist.fresh # 0)
      => /\ result[p].success
         /\ result[p].push.success = 1
         /\ hist.fresh \in DOMAIN activities
         /\ activities[hist.fresh].serverId # 0
         /\ activities[hist.fresh].syncStatus = "synced"
         /\ syncQueue = <<>>

\* C6: the second of two cycles in a row, with no network or store failure,
\* no entry that failed, no call of the record API and no change of the backend
\* by anyone else since the first began, ends with the queue empty and reports
\* nothing pushed and nothing pulled.
C6_SecondCycleIdle ==
  \A p \in SyncProcs :
    (result[p].kind = "completed" /\ ~hist.dirty /\ hist.streak = 2)
      => /\ syncQueue = <<>>
         /\ result[p].push = NoPush
         /\ result[p].pull.added = 0
         /\ result[p].pull.updated = 0

\* C7: when the push phase of a cycle that met no failure has ended, every
\* record that had a remote identifier when ActivityDB.delete was called on it,
\* and whose delete entry the phase read, is gone from the backend and has no
\* entry left in the queue.
C7_DeleteReachesBackend ==
  \A p \in SyncProcs :
    (sp[p].pc = "pullSettings" /\ ~hist.dirty)
      => \A k \in 1..Len(sp[p].queue) :
           (sp[p].queue[k].operation = "delete" /\ sp[p].queue[k].carried # 0)
             => /\ sp[p].queue[k].carried \notin DOMAIN server
                /\ \A m \in 1..Len(syncQueue) :
                     syncQueue[m].activityId # sp[p].queue[k].activityId

\* C8: right after the pull has overwritten a local record with a strictly
\* newer remote one, the local record has the remote content and is synced.
C8_OverwrittenRecordSynced ==
  \A p \in SyncProcs :
    (sp[p].pc = "pullUpdateQueue" /\ sp[p].localId \in DOMAIN activities)
      => /\ activities[sp[p].localId].data = Remote(p).data
         /\ activities[sp[p].localId].startTime = Remote(p).startTime
         /\ activities[sp[p].localId].serverId = Remote(p).mongoId
         /\ activities[sp[p].localId].syncStatus = "synced"

\* C9: an entry whose retry counter has reached the ceiling (it has failed in
\* that many push phases) is in the queue only while the phase of its last
\* failure is about to remove it.
C9_DroppedAtCeiling ==
  \A k \in 1..Len(syncQueue) :
    syncQueue[k].retryCount >= MaxRetries
      => \E p \in SyncProcs :
           sp[p].pc = "dropRetry" /\ Item(p).id = syncQueue[k].id

\* C10: when a forceSync() that nothing else interleaved with has resolved, the
\* local store holds exactly one record for each document the backend listed
\* and no other, every record is synced, and the queue is empty.
C10_ForceSyncMirrors ==
  (fp.outcome = "resolved" /\ ~hist.fdirty)
    => /\ \A k \in 1..Len(fp.list) :
            Cardinality({id \in DOMAIN activities :
                           activities[id].serverId = fp.list[k].mongoId}) = 1
       /\ \A id \in DOMAIN activities :
            /\ \E k \in 1..Len(fp.list) : activities[id].serverId = fp.list[k].mongoId
            /\ activities[id].syncStatus = "synced"
       /\ syncQueue = <<>>

\* C11: every local record that is synced carries a remote identifier.
C11_SyncedHasServerId ==
  \A id \in DOMAIN activities :
    activities[id].syncStatus = "synced" => activities[id].serverId # 0

C11_Witness ==
  \E id \in DOMAIN activities :
    /\ activities[id].syncStatus = "synced"
    /\ activities[id].serverId \in DOMAIN server

\* C12: no two documents of the backend were created by pushes of the same
\* locally created record.
C12_OneDocumentPerRecord ==
  \A s1 \in DOMAIN server, s2 \in DOMAIN server :
    (server[s1].origin # 0 /\ server[s1].origin = server[s2].origin) => s1 = s2

\* C13: a step that takes a record out of the local store is the first write
\* of ActivityDB.delete, called by the user or by forceSync(); no step of a
\* sync() cycle removes a record, whatever the outcome of its calls.
C13_SyncKeepsRecords ==
  [][\/ DOMAIN activities \subseteq DOMAIN activities'
     \/ up.pc = "idle" /\ up'.op = "delete"
     \/ fp.pc = "delete"]_vars

C13_Witness ==
  \E p \in SyncProcs :
    /\ sp[p].pc = "pullUpdateQueue"
    /\ sp[p].localId \in DOMAIN activities
    /\ activities[sp[p].localId].mongoId # 0
    /\ faults > 0

\* C14: once local mutations and failures have ended and sync() keeps being
\* called, a state is reached in which every local record is synced under a
\* remote identifier and the queue is empty (or the bounds of the model have
\* stopped a call).
C14_EventuallyConsistent ==
  <>((~Open /\ Converged) \/ BoundStuck)

\* C15: the step in which a call of sync() comes to the offline result leaves
\* the guard free and changes neither the local records, the queue, the
\* last-sync setting, the backend nor any cycle.
C15_OfflineCallChangesNothing ==
  [][\A p \in SyncProcs :
       (result[p].kind # "offline" /\ result'[p].kind = "offline")
         => /\ ~isSyncing'
            /\ UNCHANGED <<client, server, nextSid, isSyncing, sp>>]_vars

C15_Witness ==
  \E p \in SyncProcs :
    /\ result[p].kind = "offline"
    /\ syncQueue # <<>>
    /\ ~isSyncing

\* C16: the step in which the health probe of a cycle fails ends the cycle with
\* the failure result 'Backend is not reachable' and changes neither the queue
\* (entries and retry counters), the local records, the last-sync setting nor
\* the backend: the cycle makes no further call.
C16_HealthFailureAborts ==
  [][\A p \in SyncProcs :
       (sp[p].pc = "health" /\ faults' # faults)
         => /\ sp'[p] = IdleSync
            /\ result'[p] = SyncCatch("Backend is not reachable")
            /\ UNCHANGED <<client, server, nextSid>>]_vars

C16_Witness ==
  \E p \in SyncProcs :
    /\ result[p].kind = "failed"
    /\ result[p].message = "Backend is not reachable"
    /\ syncQueue # <<>>
    /\ ~InCycle(p)

\* C17: the step in which forceSync(), called without connectivity, throws
\* changes neither the queue, the local records, the last-sync setting nor the
\* backend.
C17_ForceOfflineChangesNothing ==
  [][(fp.pc = "idle" /\ fp'.outcome = "rejected")
       => UNCHANGED <<client, server, nextSid, isSyncing>>]_vars

C17_Witness ==
  /\ fp.outcome = "rejected"
  /\ faults = 0
  /\ syncQueue # <<>>
  /\ activities # <<>>

\* C18: no step of a sync() cycle that reads the queue or the local records
\* (SyncQueueDB.getAll, ActivityDB.getById, ActivityDB.getAll) is taken while a
\* record-API call has written its record change and not yet its queue entry.
C18_MutationAtomic ==
  [][\A p \in SyncProcs :
       (sp[p].pc \in {"readQueue", "getById", "pullGetAll"} /\ sp'[p] # sp[p])
         => up.pc # "enqueue"]_vars

\* C19: a push that writes a document on behalf of a local record carries a
\* queue entry that is not older than the entry of the same record whose push
\* wrote the document last.
C19_PushOrderPreserved ==
  [][\A p \in SyncProcs :
       (sp[p].pc = "apiUpdate" /\ server' # server)
         => LET sid == sp[p].activity[1].serverId
            IN server[sid].by = Item(p).activityId
                 => server[sid].entry <= Item(p).id]_vars

\* C20: the list the backend answers to the pull's request holds every
\* document whose lastModified is later than the stored last-sync value, and
\* every document when none is stored.
C20_PullCoversModified ==
  \A p \in SyncProcs :
    sp[p].pc = "apiList"
      => LET listed == GetActivities(sp[p].since, DefaultLimit)
         IN \A s \in DOMAIN server :
              (sp[p].since = 0 \/ server[s].lastModified > sp[p].since)
                => \E k \in 1..Len(listed) : listed[k].mongoId = s

\* C21: when the pull has stored a remote record that no local record referred
\* to, exactly one local record carries its identifier, that record is synced,
\* and the mutation queue is as it was.
C21_PullInsertsSynced ==
  [][\A p \in SyncProcs :
       (sp[p].pc = "pullAddQueue" /\ sp'[p].pc # "pullAddQueue")
         => LET held == {id \in DOMAIN activities' :
                           activities'[id].serverId = Remote(p).mongoId}
            IN /\ Cardinality(held) = 1
               /\ \A id \in held : activities'[id].syncStatus = "synced"
               /\ syncQueue' = syncQueue]_vars

\* C22: a cycle of sync() that returns success = true has stored the current
\* time as lastSync; a cycle that returns a failure (backend unreachable, pull
\* failed, store failed), every step inside a cycle, and a call answered busy or
\* offline leave the stored lastSync as it was.
C22_LastSyncOnSuccessOnly ==
  [][\A p \in SyncProcs :
       /\ (InCycle(p) /\ sp'[p].pc = "idle")
            => IF result'[p].success THEN lastSync' = now ELSE lastSync' = lastSync
       /\ (InCycle(p) /\ sp'[p].pc # "idle") => lastSync' = lastSync
       /\ (result[p].kind = "none" /\ result'[p].kind \in {"busy", "offline"})
            => lastSync' = lastSync]_vars

C22_Witness ==
  \E p \in SyncProcs :
    /\ result[p].kind = "failed" /\ result[p].message = "Network Error"
    /\ lastSync = 1 /\ now = 2

\* C23: whatever startAutoSync and stopAutoSync calls have been made, at most
\* one interval is running, it is the one SyncService holds the handle of, and
\* none is running once stopAutoSync has left the handle null.
C23_OneAutoSyncTimer ==
  /\ Cardinality(timers) <= 1
  /\ timers \subseteq {syncInterval}
  /\ syncInterval = 0 => timers = {}

\* A second startAutoSync has replaced the interval of the first.
C23_Witness == syncInterval = 2 /\ timers = {2}

\* C24: no handler of the activities router has run for a request unless the
\* request's X-API-Key is the configured key; a request without a key has been
\* answered 401 and one with another key 403.
C24_ApiKeyGuardsRoutes ==
  /\ resp.handler # "none" => (req.key # 0 /\ req.key = req.env)
  /\ (resp.stage = "sent" /\ req.key = 0) => resp.status = 401
  /\ (resp.stage = "sent" /\ req.key # 0 /\ req.key # req.env) => resp.status = 403

C24_Witness ==
  /\ req.route = "exportGPX" /\ req.key = 1 /\ req.env = 2
  /\ resp.stage = "sent" /\ resp.status = 403 /\ resp.handler = "none"

C26_OrphanCreateNotRetried ==
  [][\A p \in SyncProcs :
       (/\ sp[p].pc = "incRetry"
        /\ Item(p).operation = "create"
        /\ sp[p].activity = <<>>
        /\ sp'[p].pc # "incRetry")
         => \/ sp'[p].pc = "dropRetry"
            \/ \A k \in 1 .. Len(syncQueue') : syncQueue'[k].id # Item(p).id]_vars

\* The stored entry with identifier qid is in queue q.
Queued(q, qid) == \E k \in 1 .. Len(q) : q[k].id = qid

\* The retry counter of the stored entry with identifier qid.
RetryCountOf(q, qid) == q[CHOOSE k \in 1 .. Len(q) : q[k].id = qid].retryCount

\* An update entry is in hand and its record exists without a serverId.
UnsyncedUpdate(p) ==
  /\ Item(p).operation = "update"
  /\ Item(p).activityId \in DOMAIN activities
  /\ activities[Item(p).activityId].serverId = 0

\* C27: an update entry whose record has no remote identifier goes from the
\* read of the record straight to the failure handling, with the remote store
\* untouched; the handling counts one failed push, increments the stored retry
\* counter by one, and while the new counter is below the ceiling the entry
\* stays in the queue and the phase goes on without removing it.
C27_UnsyncedUpdateRetried ==
  [][\A p \in SyncProcs :
       /\ (sp[p].pc = "getById" /\ UnsyncedUpdate(p) /\ sp'[p] # sp[p])
            => (sp'[p].pc = "incRetry" /\ server' = server)
       /\ (/\ sp[p].pc = "incRetry" /\ UnsyncedUpdate(p)
           /\ Queued(syncQueue, Item(p).id)
           /\ sp'[p] # sp[p])
            => /\ server' = server
               /\ sp'[p].push.failed = sp[p].push.failed + 1
               /\ sp'[p].push.success = sp[p].push.success
               /\ Queued(syncQueue', Item(p).id)
               /\ RetryCountOf(syncQueue', Item(p).id)
                    = RetryCountOf(syncQueue, Item(p).id) + 1
               /\ RetryCountOf(syncQueue', Item(p).id) < MaxRetries
                    => sp'[p].pc # "dropRetry"]_vars

\* The failure handling of such an entry is done and the entry is queued with
\* its counter at 1.
C27_Witness ==
  \E p \in SyncProcs :
    /\ sp[p].pc = "pullSettings" /\ sp[p].push.failed >= 1
    /\ \E k \in 1 .. Len(syncQueue) :
         /\ syncQueue[k].operation = "update" /\ syncQueue[k].retryCount = 1
         /\ syncQueue[k].activityId \in DOMAIN activities
         /\ activities[syncQueue[k].activityId].serverId = 0

UnsyncedDelete(p) == Item(p).operation = "delete" /\ Item(p).carried = 0

\* C29: a delete entry for a record that never had a remote identifier goes
\* from the read of the record straight to the removal of the entry, and the
\* removal takes the entry out of the queue and counts one successful push;
\* the remote store is untouched throughout.
C29_UnsyncedDeleteJustRemoved ==
  [][\A p \in SyncProcs :
       /\ (sp[p].pc = "getById" /\ UnsyncedDelete(p) /\ sp'[p] # sp[p])
            => (sp'[p].pc = "remove" /\ server' = server)
       /\ (sp[p].pc = "remove" /\ UnsyncedDelete(p) /\ sp'[p] # sp[p])
            => /\ server' = server
               /\ ~Queued(syncQueue', Item(p).id)
               /\ sp'[p].push.success = sp[p].push.success + 1
               /\ sp'[p].push.failed = sp[p].push.failed]_vars

\* Such an entry, the last of its phase, has just been removed.
C29_Witness ==
  \E p \in SyncProcs :
    /\ sp[p].pc = "pullSettings" /\ sp[p].push.success >= 1
    /\ Len(sp[p].queue) >= 1
    /\ LET last == sp[p].queue[Len(sp[p].queue)]
       IN /\ last.operation = "delete" /\ last.carried = 0
          /\ ~Queued(syncQueue, last.id)
    /\ server = <<>>

\* C30: the step of the pull that compares a returned remote record with the
\* local records adds one to the conflict count when a local record has its
\* identifier, is pending, and is strictly older than it, and adds nothing
\* otherwise; no other step of a cycle changes the count.
C30_ConflictCountedExactly ==
  [][\A p \in SyncProcs :
       (InCycle(p) /\ sp'[p].pc # "idle")
         => LET before == sp[p].pull.conflicts
                after == sp'[p].pull.conflicts
                hit == /\ sp[p].pc = "pullGetAll"
                       /\ sp'[p] # sp[p]
                       /\ \E id \in DOMAIN activities :
                            /\ activities[id].serverId = Remote(p).mongoId
                            /\ id = FindLocal(Remote(p).mongoId)
                            /\ activities[id].syncStatus = "pending"
                            /\ Remote(p).lastModified > activities[id].lastModified
            IN after = (IF hit THEN before + 1 ELSE before)]_vars

\* A conflict has been counted, and the pull goes on to overwrite the record.
C30_Witness ==
  \E p \in SyncProcs :
    /\ sp[p].pc = "pullUpdate" /\ sp[p].pull.conflicts = 1
    /\ activities[sp[p].localId].syncStatus = "pending"
    /\ Remote(p).lastModified > activities[sp[p].localId].lastModified

\* The pull compares a returned remote record with the local record that has
\* its identifier, and the remote one is not strictly newer.
RemoteNotNewer(p) ==
  /\ sp[p].pc = "pullGetAll"
  /\ FindLocal(Remote(p).mongoId) # 0
  /\ Remote(p).lastModified <= activities[FindLocal(Remote(p).mongoId)].lastModified

\* C31: when the returned remote record is not strictly newer than the local
\* record with its identifier, the pull goes on to the next returned record (or
\* ends) with the local records, the queue and its three counts as they were.
C31_NotNewerLeftAlone ==
  [][\A p \in SyncProcs :
       (RemoteNotNewer(p) /\ sp'[p] # sp[p])
         => /\ activities' = activities
            /\ syncQueue' = syncQueue
            /\ sp'[p].pull = sp[p].pull
            /\ \/ sp'[p].pc = "pullGetAll" /\ sp'[p].j = sp[p].j + 1
               \/ sp'[p].pc = "setLastSync"]_vars

\* The first of two returned records was not newer than its local record and
\* the pull has gone on to the second with nothing counted.
C31_Witness ==
  \E p \in SyncProcs :
    /\ sp[p].pc = "pullGetAll" /\ sp[p].j = 2
    /\ sp[p].pull = NoPull
    /\ LET w == sp[p].list[1]
       IN /\ FindLocal(w.mongoId) # 0
          /\ w.lastModified <= activities[FindLocal(w.mongoId)].lastModified

\* The positions of pullFromServer and of what follows it in sync().
InPull(pc) ==
  pc \in {"pullSettings", "apiList", "pullGetAll", "pullUpdate", "pullUpdateQueue",
          "pullAdd", "pullAddQueue", "setLastSync"}

\* C32: a cycle enters the pull phase only from the end of the push phase: from
\* the read of an empty queue, or from the handling of the last entry read.
\* The remote list call and the reconciliation writes are steps of the pull
\* phase, so none of them precedes the visit of any entry.
C32_PushBeforePull ==
  [][\A p \in SyncProcs :
       (InPull(sp'[p].pc) /\ ~InPull(sp[p].pc))
         => \/ sp[p].pc = "readQueue" /\ syncQueue = <<>>
            \/ /\ sp[p].pc \in {"remove", "incRetry", "dropRetry"}
               /\ sp[p].i = Len(sp[p].queue)
               /\ sp'[p].push.success + sp'[p].push.failed = Len(sp[p].queue)]_vars

\* The remote list call of a cycle whose push phase had two entries.
C32_Witness ==
  \E p \in SyncProcs :
    /\ sp[p].pc = "apiList" /\ Len(sp[p].queue) = 2
    /\ sp[p].push.success + sp[p].push.failed = 2

\* C33: a step of a sync() cycle leaves every local record that carries a
\* remote identifier in the store, with the same identifier.
C33_ServerIdStable ==
  [][\A p \in SyncProcs :
       (InCycle(p) /\ sp'[p] # sp[p])
         => \A id \in DOMAIN activities :
              activities[id].serverId # 0
                => /\ id \in DOMAIN activities'
                   /\ activities'[id].serverId = activities[id].serverId]_vars

\* C34: the stored retry counter of an entry, which counts the push phases in
\* which it has failed, never exceeds MaxRetries + 1; and while sync() keeps
\* being called, every entry that is in the queue is out of it later (unless a
\* call stands before a write that the bounds of the model do not allow).
C34_EveryEntryLeaves ==
  /\ [](\A k \in 1 .. Len(syncQueue) : syncQueue[k].retryCount <= MaxRetries + 1)
  /\ \A qid \in 1 .. MaxQId :
       Queued(syncQueue, qid) ~> (~Queued(syncQueue, qid) \/ BoundStuck)

\* An entry that has failed in MaxRetries + 1 push phases is about to be removed.
C34_Witness ==
  /\ sp[1].pc = "dropRetry"
  /\ Queued(syncQueue, Item(1).id)
  /\ RetryCountOf(syncQueue, Item(1).id) = MaxRetries + 1

\* No call of the record API, of sync() or of forceSync() is in flight.
AtRest ==
  /\ up.pc = "idle" /\ fp.pc = "idle"
  /\ \A p \in SyncProcs : sp[p].pc = "idle"

\* C35: when no call is in flight, every local record that is pending is
\* referred to by an entry of the mutation queue.
C35_PendingIsQueued ==
  AtRest
    => \A id \in DOMAIN activities :
         activities[id].syncStatus = "pending"
           => \E k \in 1 .. Len(syncQueue) : syncQueue[k].activityId = id

\* C36: when a cycle of sync() ends, no local record that is synced has a
\* create or update entry in the mutation queue.
C36_SyncedHasNoEntry ==
  [][\A p \in SyncProcs :
       (InCycle(p) /\ sp'[p].pc = "idle")
         => \A id \in DOMAIN activities' :
              activities'[id].syncStatus = "synced"
                => \A k \in 1 .. Len(syncQueue') :
                     syncQueue'[k].activityId = id
                       => syncQueue'[k].operation = "delete"]_vars

\* C37: when forceSync() is rejected because its remote list call failed, the
\* mutation queue is the one the call found and the local records are as they
\* have been since the call.
C37_ForceFailureChangesNothing ==
  [][(fp.pc = "list" /\ fp'.outcome = "rejected")
       => /\ syncQueue' = fp.cleared
          /\ activities' = activities]_vars

\* C38: no two local records carry the same remote identifier.
C38_OneRecordPerServerId ==
  \A a, b \in DOMAIN activities :
    (a # b /\ activities[a].serverId # 0)
      => activities[a].serverId # activities[b].serverId

\* C39: while the stored autoSync setting is false no interval of auto-sync is
\* running.
C39_NoTimerWhileAutoSyncOff == ~autoSync => timers = {}

====
